---- MODULE Spec2Model ----
(***************************************************************************)
(* The game-logic state machine of the memory game: GameState, the Card    *)
(* entities, the input queue of GameLogicSystem and one engine tick         *)
(* (GameLogicSystem.execute), with the pure functions of                    *)
(* components/game-state.ts, components/card.ts, components/board.ts and    *)
(* systems/game-logic-system.ts they are built from.                        *)
(*                                                                          *)
(* JavaScript runs execute() to completion: one tick is one action, and     *)
(* the host's calls (addInputEvent, startGame, pauseGame, resumeGame) and   *)
(* the renderer's reads fall between two ticks.                             *)
(***************************************************************************)
EXTENDS Integers, Sequences, FiniteSets, TLC

\* ---------------------------------------------------------------- bounds
\* Longest input queue between two ticks.
MaxQueue == 2
\* The clock stops at MaxTime, one millisecond past the speed-bonus window.
MaxTime == 3001
\* Ticks are run while matchCount is below this cap.
MaxMatchCount == 4

\* The largest board of the generator's runs is MaxRows x MaxColumns.
MaxRows == 3
MaxColumns == 3

\* The card front images of the model (the game has twelve).
MaxCardFronts == 3

\* ------------------------------------------------------ program constants
\* The card size and gap of the boards (the integration tests' board).
cardWidth == 100
cardHeight == 150
gap == 10

INITIALIZING == 0
READY == 1
PLAYING == 2
PAUSED == 3
GAME_OVER == 4

\* ensureFairDistribution's default maxAttempts
maxAttempts == 3

NON_MATCH_FLIP_DELAY == 1000

\* The instants performance.now() takes in the model: the clock jumps from
\* one of them to a later one, so that the differences 999 and 1000 (the
\* unflip delay) and MaxTime - 1 and MaxTime (the speed-bonus window and the
\* first instant past it) all occur.
Instants == {0, 1, NON_MATCH_FLIP_DELAY, MaxTime}

\* ------------------------------------------------------------------ state
VARIABLES
    gameState,      \* the GameState component
    cards,          \* the Card entities, in query order (cardEntities[i-1])
    board,          \* the Board component
    inputEvents,    \* GameLogicSystem.inputEvents
    now,            \* the value performance.now() returns
    call            \* the call in progress of a function run step by step or
                    \* on drawn arguments: its place, locals and result

vars == <<gameState, cards, board, inputEvents, now, call>>

\* No call is in progress.
Idle == [pc |-> "idle"]

\* A function returning null.
NULL == [isNull |-> TRUE]

\* Object.assign(obj, updates)
Assign(obj, updates) ==
    [k \in DOMAIN obj |-> IF k \in DOMAIN updates THEN updates[k] ELSE obj[k]]

\* applyUpdate: assign unless the update function returned null
applyUpdate(obj, updates) ==
    IF updates = NULL THEN obj ELSE Assign(obj, updates)

\* ------------------------------------------------------------- random.ts
RECURSIVE CountOf(_, _)
CountOf(s, v) ==
    IF s = <<>> THEN 0
    ELSE (IF Head(s) = v THEN 1 ELSE 0) + CountOf(Tail(s), v)

\* The sequences generateCardValuesForBoard can return for an even board:
\* shuffle permutes createCardPairs(pairCount), and ensureFairDistribution
\* returns a shuffle of it, so every arrangement of {1,1,..,p,p} can come out.
CardValueArrangements(rows, columns) ==
    LET n == rows * columns
        p == n \div 2
    IN  {s \in [1..n -> 1..p] : \A v \in 1..p : CountOf(s, v) = 2}

\* createCardPairs: 1, 1, 2, 2, .., pairCount, pairCount
createCardPairs(pairCount) ==
    [k \in 1..(2 * pairCount) |-> (k + 1) \div 2]

\* A faulty swap that overwrites result[i] and leaves result[j].
Swap_Overwrites(result, i, j) ==
    [result EXCEPT ![i + 1] = result[j + 1]]

\* [result[i], result[j]] = [result[j], result[i]] (indices from 0)
Swap(result, i, j) ==
    [result EXCEPT ![i + 1] = result[j + 1], ![j + 1] = result[i + 1]]

\* A faulty hasAdjacentPairs that stops one position early.
hasAdjacentPairs_SkipsLast(values) ==
    \E i \in 1..(Len(values) - 2) : values[i] = values[i + 1]

hasAdjacentPairs(values) ==
    \E i \in 1..(Len(values) - 1) : values[i] = values[i + 1]

\* shuffle, entered: the copy of the array and the loop variable i; every
\* further step of the loop draws a j from Math.random().
EnterShuffle(array, attempts, previous) ==
    [pc |-> "shuffle", result |-> array, i |-> Len(array) - 1,
     attempts |-> attempts, previous |-> previous]

\* A faulty generateCardValuesForBoard without the test for an odd board.
generateCardValuesForBoard_NoCheck(rows, columns, previous) ==
    EnterShuffle(createCardPairs((rows * columns) \div 2), 0, previous)

\* generateCardValuesForBoard up to its call of shuffle: the error for an
\* odd number of cards, else the pairs handed to shuffle.  previous is the
\* sequence an earlier run returned, <<>> when there was none.
generateCardValuesForBoard(rows, columns, previous) ==
    LET totalCards == rows * columns
    IN  IF totalCards % 2 # 0
        THEN [pc |-> "raised"]
        ELSE EnterShuffle(createCardPairs(totalCards \div 2), 0, previous)

\* --------------------------------------------------------------- board.ts
createInitialBoard(config) ==
    [rows |-> config.rows, columns |-> config.columns,
     cardWidth |-> config.cardWidth, cardHeight |-> config.cardHeight,
     gap |-> config.gap,
     width |-> config.columns * config.cardWidth + (config.columns - 1) * config.gap,
     height |-> config.rows * config.cardHeight + (config.rows - 1) * config.gap]

\* JavaScript's a % b for b > 0: the sign follows the dividend.
JsRem(a, b) == IF a >= 0 THEN a % b ELSE 0 - ((0 - a) % b)

\* throw new Error(`Card index ${index} is out of bounds ...`)
OutOfBounds == [error |-> "out of bounds"]

\* A faulty calculateCardPosition that takes the row for the column.
calculateCardPosition_Transposed(b, index) ==
    IF index < 0 \/ index >= b.rows * b.columns THEN OutOfBounds
    ELSE LET row == index % b.columns
             col == index \div b.columns
         IN  [x |-> col * (b.cardWidth + b.gap) + b.cardWidth \div 2,
              y |-> row * (b.cardHeight + b.gap) + b.cardHeight \div 2]

\* The centre of the card at index.  Lengths are whole pixels: with an even
\* cardWidth and cardHeight the centre is one too.
calculateCardPosition(b, index) ==
    IF index < 0 \/ index >= b.rows * b.columns THEN OutOfBounds
    ELSE LET row == index \div b.columns
             col == index % b.columns
         IN  [x |-> col * (b.cardWidth + b.gap) + b.cardWidth \div 2,
              y |-> row * (b.cardHeight + b.gap) + b.cardHeight \div 2]

\* A faulty getCardIndexAtPosition without the test for the gap.
getCardIndexAtPosition_NoGap(b, x, y) ==
    LET cardWidthWithGap == b.cardWidth + b.gap
        cardHeightWithGap == b.cardHeight + b.gap
        col == x \div cardWidthWithGap
        row == y \div cardHeightWithGap
    IN  IF col < 0 \/ col >= b.columns \/ row < 0 \/ row >= b.rows
        THEN -1
        ELSE row * b.columns + col

getCardIndexAtPosition(b, x, y) ==
    LET cardWidthWithGap == b.cardWidth + b.gap
        cardHeightWithGap == b.cardHeight + b.gap
        col == x \div cardWidthWithGap
        row == y \div cardHeightWithGap
        xRemainder == JsRem(x, cardWidthWithGap)
        yRemainder == JsRem(y, cardHeightWithGap)
    IN  IF col < 0 \/ col >= b.columns \/ row < 0 \/ row >= b.rows
        THEN -1
        ELSE IF xRemainder > b.cardWidth \/ yRemainder > b.cardHeight
        THEN -1
        ELSE row * b.columns + col

\* ---------------------------------------------------------------- card.ts
\* A faulty flipCard that starts every animation at 0.
flipCard_ProgressZero(card) ==
    [isFlipped |-> ~card.isFlipped, flipProgress |-> 0]

flipCard(card) ==
    LET isFlipped == ~card.isFlipped
    IN  [isFlipped |-> isFlipped, flipProgress |-> IF isFlipped THEN 0 ELSE 1]

\* A faulty matchCard that toggles the flag instead of setting it.
matchCard_Toggles(card) ==
    [isMatched |-> ~card.isMatched]

matchCard(card) ==
    IF card.isMatched THEN NULL ELSE [isMatched |-> TRUE]

\* ---------------------------------------------------------- game-state.ts
initializeGame(state, totalPairs) ==
    [moveCount |-> 0, matchCount |-> 0, totalPairs |-> totalPairs,
     elapsedTime |-> 0, startTime |-> 0, phase |-> INITIALIZING,
     firstSelectedCardEntityId |-> -1, secondSelectedCardEntityId |-> -1,
     lastMoveTime |-> 0, score |-> 0]

startGame(state) ==
    [phase |-> PLAYING, startTime |-> now, lastMoveTime |-> now]

\* A faulty pauseGame without the test of the phase.
pauseGame_Unguarded(state) ==
    [phase |-> PAUSED]

pauseGame(state) ==
    IF state.phase # PLAYING THEN NULL ELSE [phase |-> PAUSED]

\* A faulty resumeGame without the test of the phase.
resumeGame_Unguarded(state) ==
    [phase |-> PLAYING, lastMoveTime |-> now]

\* A faulty resumeGame that does not stamp lastMoveTime.
resumeGame_NoStamp(state) ==
    IF state.phase # PAUSED THEN NULL
    ELSE [phase |-> PLAYING]

resumeGame(state) ==
    IF state.phase # PAUSED THEN NULL
    ELSE [phase |-> PLAYING, lastMoveTime |-> now]

\* A faulty selectCard without the test for a card that is already selected.
selectCard_Reselects(state, cardEntityId, cardValue) ==
    IF state.phase # PLAYING THEN NULL
    ELSE IF state.firstSelectedCardEntityId = -1
    THEN [firstSelectedCardEntityId |-> cardEntityId, lastMoveTime |-> now]
    ELSE IF state.secondSelectedCardEntityId = -1
    THEN [secondSelectedCardEntityId |-> cardEntityId,
          moveCount |-> state.moveCount + 1, lastMoveTime |-> now]
    ELSE NULL

\* A faulty selectCard that counts a move for the first card as well.
selectCard_CountsFirst(state, cardEntityId, cardValue) ==
    IF state.phase # PLAYING THEN NULL
    ELSE IF cardEntityId = state.firstSelectedCardEntityId
            \/ cardEntityId = state.secondSelectedCardEntityId THEN NULL
    ELSE IF state.firstSelectedCardEntityId = -1
    THEN [firstSelectedCardEntityId |-> cardEntityId,
          moveCount |-> state.moveCount + 1, lastMoveTime |-> now]
    ELSE IF state.secondSelectedCardEntityId = -1
    THEN [secondSelectedCardEntityId |-> cardEntityId,
          moveCount |-> state.moveCount + 1, lastMoveTime |-> now]
    ELSE NULL

\* A faulty selectCard that takes a further card into the second slot when
\* both slots are filled.
selectCard_Overwrites(state, cardEntityId, cardValue) ==
    IF state.phase # PLAYING THEN NULL
    ELSE IF cardEntityId = state.firstSelectedCardEntityId
            \/ cardEntityId = state.secondSelectedCardEntityId THEN NULL
    ELSE IF state.firstSelectedCardEntityId = -1
    THEN [firstSelectedCardEntityId |-> cardEntityId, lastMoveTime |-> now]
    ELSE [secondSelectedCardEntityId |-> cardEntityId,
          moveCount |-> state.moveCount + 1, lastMoveTime |-> now]

selectCard(state, cardEntityId, cardValue) ==
    IF state.phase # PLAYING THEN NULL
    ELSE IF cardEntityId = state.firstSelectedCardEntityId
            \/ cardEntityId = state.secondSelectedCardEntityId THEN NULL
    ELSE IF state.firstSelectedCardEntityId = -1
    THEN [firstSelectedCardEntityId |-> cardEntityId, lastMoveTime |-> now]
    ELSE IF state.secondSelectedCardEntityId = -1
    THEN [secondSelectedCardEntityId |-> cardEntityId,
          moveCount |-> state.moveCount + 1, lastMoveTime |-> now]
    ELSE NULL

\* A faulty checkForMatch that applies the bonus formula outside its window.
checkForMatch_NoWindow(state, firstCardValue, secondCardValue) ==
    LET isMatch == firstCardValue = secondCardValue
        matchCount == IF isMatch THEN state.matchCount + 1 ELSE state.matchCount
        isGameOver == matchCount >= state.totalPairs
        timeTaken == now - state.lastMoveTime
        score == IF ~isMatch THEN state.score
                 ELSE state.score + 50 + (3000 - timeTaken) \div 100
    IN  IF isGameOver
        THEN [matchCount |-> matchCount, phase |-> GAME_OVER, score |-> score]
        ELSE [matchCount |-> matchCount, score |-> score]

\* A faulty checkForMatch that empties the slots when the game is over.
checkForMatch_ResetsAtGameOver(state, firstCardValue, secondCardValue) ==
    LET isMatch == firstCardValue = secondCardValue
        matchCount == IF isMatch THEN state.matchCount + 1 ELSE state.matchCount
        isGameOver == matchCount >= state.totalPairs
        timeTaken == now - state.lastMoveTime
        score == IF ~isMatch THEN state.score
                 ELSE state.score + 50
                      + (IF timeTaken < 3000 THEN (3000 - timeTaken) \div 100 ELSE 0)
    IN  IF isGameOver
        THEN [matchCount |-> matchCount, phase |-> GAME_OVER, score |-> score,
              firstSelectedCardEntityId |-> -1, secondSelectedCardEntityId |-> -1]
        ELSE [matchCount |-> matchCount, score |-> score]

checkForMatch(state, firstCardValue, secondCardValue) ==
    LET isMatch == firstCardValue = secondCardValue
        matchCount == IF isMatch THEN state.matchCount + 1 ELSE state.matchCount
        isGameOver == matchCount >= state.totalPairs
        timeTaken == now - state.lastMoveTime
        score == IF ~isMatch THEN state.score
                 ELSE state.score + 50
                      + (IF timeTaken < 3000 THEN (3000 - timeTaken) \div 100 ELSE 0)
    IN  IF isGameOver
        THEN [matchCount |-> matchCount, phase |-> GAME_OVER, score |-> score]
        ELSE [matchCount |-> matchCount, score |-> score]

\* Math.max
Max(a, b) == IF a >= b THEN a ELSE b

\* A faulty calculateFinalScore whose bonus terms may be negative.
calculateFinalScore_NoFloor(state) ==
    state.matchCount * 100
    + (120 - state.elapsedTime) * 5
    + (state.totalPairs * 2 * 3 - state.moveCount) * 10

calculateFinalScore(state) ==
    LET score == state.matchCount * 100
        timeBonus == Max(0, 120 - state.elapsedTime) * 5
        perfectMoves == state.totalPairs * 2
        moveEfficiency == Max(0, perfectMoves * 3 - state.moveCount)
        moveBonus == moveEfficiency * 10
    IN  score + timeBonus + moveBonus

\* A faulty resetSelection that clears the first slot only.
resetSelection_KeepsSecond(state) ==
    [firstSelectedCardEntityId |-> -1, lastMoveTime |-> now]

resetSelection(state) ==
    [firstSelectedCardEntityId |-> -1, secondSelectedCardEntityId |-> -1,
     lastMoveTime |-> now]

\* A faulty updateGameTimer that never sets an unset startTime.
updateGameTimer_NoLazyStart(state, time) ==
    IF state.phase # PLAYING THEN NULL
    ELSE [elapsedTime |-> time - state.startTime, startTime |-> state.startTime]

\* elapsedTime is held in thousandths of a second: the code's float
\* (currentTime - startTime) / 1000 is that number of milliseconds over 1000.
updateGameTimer(state, time) ==
    IF state.phase # PLAYING THEN NULL
    ELSE LET startTime == IF state.startTime > 0 THEN state.startTime ELSE time
         IN  [elapsedTime |-> time - startTime, startTime |-> startTime]

\* ------------------------------------------------- game-logic-system.ts
\* new Map(): the card updates of one step, keyed by the card's place in
\* cardEntities.
EmptyMap == [i \in {} |-> NULL]

\* cardEntities.find(entity => entity.id === id): the place of the first
\* entity with that id, 0 when there is none (undefined).
Find(cardEntities, id) ==
    IF \E i \in DOMAIN cardEntities : cardEntities[i].id = id
    THEN CHOOSE i \in DOMAIN cardEntities :
            /\ cardEntities[i].id = id
            /\ \A j \in DOMAIN cardEntities : j < i => cardEntities[j].id # id
    ELSE 0

\* The shared tail of processPointerEvent and processKeyEvent, from the
\* matched-or-flipped test on; i is the target's place in cardEntities.
SelectAndFlip(state, cardEntities, i) ==
    LET card == cardEntities[i]
        stateUpdates == selectCard(state, card.id, card.value)
    IN  IF card.isMatched \/ card.isFlipped
        THEN [stateUpdates |-> NULL, cardUpdates |-> EmptyMap]
        ELSE IF stateUpdates = NULL
        THEN [stateUpdates |-> NULL, cardUpdates |-> EmptyMap]
        ELSE [stateUpdates |-> stateUpdates, cardUpdates |-> (i :> flipCard(card))]

processPointerEvent(event, state, b, cardEntities) ==
    IF "x" \notin DOMAIN event \/ "y" \notin DOMAIN event
    THEN [stateUpdates |-> NULL, cardUpdates |-> EmptyMap]
    ELSE LET cardIndex == getCardIndexAtPosition(b, event.x, event.y)
         IN  IF cardIndex = -1 \/ cardIndex >= Len(cardEntities)
             THEN [stateUpdates |-> NULL, cardUpdates |-> EmptyMap]
             ELSE SelectAndFlip(state, cardEntities, cardIndex + 1)

processKeyEvent(event, state, cardEntities) ==
    IF "entityId" \in DOMAIN event
    THEN LET target == Find(cardEntities, event.entityId)
         IN  IF target = 0
             THEN [stateUpdates |-> NULL, cardUpdates |-> EmptyMap]
             ELSE SelectAndFlip(state, cardEntities, target)
    ELSE [stateUpdates |-> NULL, cardUpdates |-> EmptyMap]

processGameInput(event, state, b, cardEntities) ==
    IF state.phase # PLAYING
    THEN [stateUpdates |-> NULL, cardUpdates |-> EmptyMap]
    ELSE IF event.type = "click" \/ event.type = "touch"
    THEN processPointerEvent(event, state, b, cardEntities)
    ELSE IF event.type = "key"
    THEN processKeyEvent(event, state, cardEntities)
    ELSE [stateUpdates |-> NULL, cardUpdates |-> EmptyMap]

\* A faulty evaluateCardMatches that ignores a selection it cannot resolve.
evaluateCardMatches_NoRecovery(state, cardEntities) ==
    IF state.firstSelectedCardEntityId = -1 \/ state.secondSelectedCardEntityId = -1
    THEN [stateUpdates |-> NULL, cardUpdates |-> EmptyMap]
    ELSE LET first == Find(cardEntities, state.firstSelectedCardEntityId)
             second == Find(cardEntities, state.secondSelectedCardEntityId)
         IN  IF first = 0 \/ second = 0
             THEN [stateUpdates |-> NULL, cardUpdates |-> EmptyMap]
             ELSE LET firstCard == cardEntities[first]
                      secondCard == cardEntities[second]
                      isMatch == firstCard.value = secondCard.value
                      firstCardUpdate == matchCard(firstCard)
                      secondCardUpdate == matchCard(secondCard)
                      updates ==
                          (IF secondCardUpdate # NULL
                           THEN (second :> secondCardUpdate) ELSE EmptyMap)
                          @@ (IF firstCardUpdate # NULL
                              THEN (first :> firstCardUpdate) ELSE EmptyMap)
                  IN  [stateUpdates |->
                           checkForMatch(state, firstCard.value, secondCard.value),
                       cardUpdates |-> IF isMatch THEN updates ELSE EmptyMap]

evaluateCardMatches(state, cardEntities) ==
    IF state.firstSelectedCardEntityId = -1 \/ state.secondSelectedCardEntityId = -1
    THEN [stateUpdates |-> NULL, cardUpdates |-> EmptyMap]
    ELSE LET first == Find(cardEntities, state.firstSelectedCardEntityId)
             second == Find(cardEntities, state.secondSelectedCardEntityId)
         IN  IF first = 0 \/ second = 0
             THEN [stateUpdates |-> resetSelection(state), cardUpdates |-> EmptyMap]
             ELSE LET firstCard == cardEntities[first]
                      secondCard == cardEntities[second]
                      isMatch == firstCard.value = secondCard.value
                      firstCardUpdate == matchCard(firstCard)
                      secondCardUpdate == matchCard(secondCard)
                      \* cardUpdates.set(first..) then cardUpdates.set(second..)
                      updates ==
                          (IF secondCardUpdate # NULL
                           THEN (second :> secondCardUpdate) ELSE EmptyMap)
                          @@ (IF firstCardUpdate # NULL
                              THEN (first :> firstCardUpdate) ELSE EmptyMap)
                  IN  [stateUpdates |->
                           checkForMatch(state, firstCard.value, secondCard.value),
                       cardUpdates |-> IF isMatch THEN updates ELSE EmptyMap]

\* A faulty handleUnmatchedCards that waits for more than the delay.
handleUnmatchedCards_FiresLate(state, cardEntities, time) ==
    IF state.firstSelectedCardEntityId = -1 \/ state.secondSelectedCardEntityId = -1
    THEN [stateUpdates |-> NULL, cardUpdates |-> EmptyMap]
    ELSE LET first == Find(cardEntities, state.firstSelectedCardEntityId)
             second == Find(cardEntities, state.secondSelectedCardEntityId)
         IN  IF first = 0 \/ second = 0
             THEN [stateUpdates |-> resetSelection(state), cardUpdates |-> EmptyMap]
             ELSE LET firstCard == cardEntities[first]
                      secondCard == cardEntities[second]
                      timeSinceLastMove == time - state.lastMoveTime
                  IN  IF ~firstCard.isFlipped \/ ~secondCard.isFlipped
                         \/ firstCard.isMatched \/ secondCard.isMatched
                      THEN [stateUpdates |-> NULL, cardUpdates |-> EmptyMap]
                      ELSE IF timeSinceLastMove <= NON_MATCH_FLIP_DELAY
                      THEN [stateUpdates |-> NULL, cardUpdates |-> EmptyMap]
                      ELSE [stateUpdates |-> resetSelection(state),
                            cardUpdates |-> (second :> flipCard(secondCard))
                                            @@ (first :> flipCard(firstCard))]

\* A faulty handleUnmatchedCards without the test that neither card is
\* matched.
handleUnmatchedCards_IgnoresMatched(state, cardEntities, time) ==
    IF state.firstSelectedCardEntityId = -1 \/ state.secondSelectedCardEntityId = -1
    THEN [stateUpdates |-> NULL, cardUpdates |-> EmptyMap]
    ELSE LET first == Find(cardEntities, state.firstSelectedCardEntityId)
             second == Find(cardEntities, state.secondSelectedCardEntityId)
         IN  IF first = 0 \/ second = 0
             THEN [stateUpdates |-> resetSelection(state), cardUpdates |-> EmptyMap]
             ELSE LET firstCard == cardEntities[first]
                      secondCard == cardEntities[second]
                      timeSinceLastMove == time - state.lastMoveTime
                  IN  IF ~firstCard.isFlipped \/ ~secondCard.isFlipped
                      THEN [stateUpdates |-> NULL, cardUpdates |-> EmptyMap]
                      ELSE IF timeSinceLastMove < NON_MATCH_FLIP_DELAY
                      THEN [stateUpdates |-> NULL, cardUpdates |-> EmptyMap]
                      ELSE [stateUpdates |-> resetSelection(state),
                            cardUpdates |-> (second :> flipCard(secondCard))
                                            @@ (first :> flipCard(firstCard))]

\* A faulty handleUnmatchedCards that flips the pair back and keeps it in
\* the slots.
handleUnmatchedCards_KeepsSelection(state, cardEntities, time) ==
    IF state.firstSelectedCardEntityId = -1 \/ state.secondSelectedCardEntityId = -1
    THEN [stateUpdates |-> NULL, cardUpdates |-> EmptyMap]
    ELSE LET first == Find(cardEntities, state.firstSelectedCardEntityId)
             second == Find(cardEntities, state.secondSelectedCardEntityId)
         IN  IF first = 0 \/ second = 0
             THEN [stateUpdates |-> resetSelection(state), cardUpdates |-> EmptyMap]
             ELSE LET firstCard == cardEntities[first]
                      secondCard == cardEntities[second]
                      timeSinceLastMove == time - state.lastMoveTime
                  IN  IF ~firstCard.isFlipped \/ ~secondCard.isFlipped
                         \/ firstCard.isMatched \/ secondCard.isMatched
                      THEN [stateUpdates |-> NULL, cardUpdates |-> EmptyMap]
                      ELSE IF timeSinceLastMove < NON_MATCH_FLIP_DELAY
                      THEN [stateUpdates |-> NULL, cardUpdates |-> EmptyMap]
                      ELSE [stateUpdates |-> [lastMoveTime |-> now],
                            cardUpdates |-> (second :> flipCard(secondCard))
                                            @@ (first :> flipCard(firstCard))]

handleUnmatchedCards(state, cardEntities, time) ==
    IF state.firstSelectedCardEntityId = -1 \/ state.secondSelectedCardEntityId = -1
    THEN [stateUpdates |-> NULL, cardUpdates |-> EmptyMap]
    ELSE LET first == Find(cardEntities, state.firstSelectedCardEntityId)
             second == Find(cardEntities, state.secondSelectedCardEntityId)
         IN  IF first = 0 \/ second = 0
             THEN [stateUpdates |-> resetSelection(state), cardUpdates |-> EmptyMap]
             ELSE LET firstCard == cardEntities[first]
                      secondCard == cardEntities[second]
                      timeSinceLastMove == time - state.lastMoveTime
                  IN  IF ~firstCard.isFlipped \/ ~secondCard.isFlipped
                         \/ firstCard.isMatched \/ secondCard.isMatched
                      THEN [stateUpdates |-> NULL, cardUpdates |-> EmptyMap]
                      ELSE IF timeSinceLastMove < NON_MATCH_FLIP_DELAY
                      THEN [stateUpdates |-> NULL, cardUpdates |-> EmptyMap]
                      ELSE [stateUpdates |-> resetSelection(state),
                            cardUpdates |-> (second :> flipCard(secondCard))
                                            @@ (first :> flipCard(firstCard))]

\* for (const [cardEntity, updates] of cardUpdates.entries())
\*     Object.assign(cardEntity.read(Card), updates)
ApplyCardUpdates(cardEntities, cardUpdates) ==
    [i \in DOMAIN cardEntities |->
        IF i \in DOMAIN cardUpdates
        THEN Assign(cardEntities[i], cardUpdates[i])
        ELSE cardEntities[i]]

\* ---------------------------------------------------- board-initializer.ts
\* createCardEntities: one Card per value, id = its index, face-down.
createCardEntities(cardValues) ==
    [i \in 1..Len(cardValues) |->
        [id |-> i - 1, value |-> cardValues[i],
         isFlipped |-> FALSE, isMatched |-> FALSE, flipProgress |-> 0]]

\* initializeBoardWithRandomCards: the cards of the generated values and
\* the initialized GameState.
initializeBoardWithRandomCards(b, cardValues) ==
    [cards |-> createCardEntities(cardValues),
     gameState |-> initializeGame(NULL, (b.rows * b.columns) \div 2)]

\* ------------------------------------------------------------- the worlds
\* The boards of the model and the card values drawn for them: the 2 x 2
\* board of the integration tests with every arrangement the generator can
\* return, a 1 x 2 board (one pair: the first match is the last), and a
\* 2 x 3 board (three pairs: play is to go on after a match) with one of its
\* arrangements.
BoardConfigs ==
    {[rows |-> 1, columns |-> 2,
      cardWidth |-> cardWidth, cardHeight |-> cardHeight, gap |-> gap],
     [rows |-> 2, columns |-> 2,
      cardWidth |-> cardWidth, cardHeight |-> cardHeight, gap |-> gap],
     [rows |-> 2, columns |-> 3,
      cardWidth |-> cardWidth, cardHeight |-> cardHeight, gap |-> gap]}

DrawnCardValues(b) ==
    IF b.rows * b.columns <= 4
    THEN CardValueArrangements(b.rows, b.columns)
    ELSE {s \in CardValueArrangements(b.rows, b.columns) :
             \A i \in DOMAIN s : s[i] = ((i - 1) % ((b.rows * b.columns) \div 2)) + 1}

\* ------------------------------------------------------- the input source
\* The events the host enqueues (InputEvent; its timestamp is read by no
\* code and is left out): a click on the centre of every card but the last,
\* a key event naming the last card, and a click in the gap right of the
\* first card.
InputEvents(b) ==
    {[type |-> "click", x |-> calculateCardPosition(b, i).x,
      y |-> calculateCardPosition(b, i).y] : i \in 0..(b.rows * b.columns - 2)}
    \cup {[type |-> "key", entityId |-> b.rows * b.columns - 1],
          [type |-> "click", x |-> b.cardWidth + b.gap \div 2,
           y |-> b.cardHeight \div 2]}

\* Events the engine has to reject whatever the state: a pointer event
\* without coordinates or without y, a key event without or with an unknown
\* entityId, and clicks left of, right of and below the grid.
MalformedEvents(b) ==
    {[type |-> "click"],
     [type |-> "touch", x |-> b.cardWidth \div 2],
     [type |-> "key"],
     [type |-> "key", entityId |-> b.rows * b.columns],
     [type |-> "click", x |-> -1, y |-> b.cardHeight \div 2],
     [type |-> "click", x |-> b.width + b.gap, y |-> b.cardHeight \div 2],
     [type |-> "touch", x |-> b.cardWidth \div 2, y |-> b.height + b.gap]}

\* ------------------------------------------- GameLogicSystem (the system)
\* processInputEvents: nothing unless PLAYING; else every queued event in
\* order, from the one at place i on, each on the state the previous left.
\* w is the pair [gameState, cards] the system reads through its queries.
RECURSIVE ProcessEventsFrom(_, _, _, _)
ProcessEventsFrom(w, b, events, i) ==
    IF i > Len(events) THEN w
    ELSE LET r == processGameInput(events[i], w.gameState, b, w.cards)
         IN  ProcessEventsFrom(
                 [gameState |-> applyUpdate(w.gameState, r.stateUpdates),
                  cards |-> ApplyCardUpdates(w.cards, r.cardUpdates)],
                 b, events, i + 1)

\* A faulty processInputEvents that takes the newest event first.
processInputEvents_NewestFirst(w, b, events) ==
    IF w.gameState.phase # PLAYING THEN w
    ELSE ProcessEventsFrom(
             w, b, [k \in 1..Len(events) |-> events[Len(events) - k + 1]], 1)

processInputEvents(w, b, events) ==
    IF w.gameState.phase # PLAYING THEN w
    ELSE ProcessEventsFrom(w, b, events, 1)

\* evaluateGameState, first half: evaluateCardMatches and its updates
ApplyMatches(w) ==
    LET r == evaluateCardMatches(w.gameState, w.cards)
    IN  IF r.stateUpdates # NULL
        THEN [gameState |-> Assign(w.gameState, r.stateUpdates),
              cards |-> ApplyCardUpdates(w.cards, r.cardUpdates)]
        ELSE w

\* evaluateGameState, second half: handleUnmatchedCards while PLAYING
ApplyUnmatched(w, time) ==
    IF w.gameState.phase = PLAYING
    THEN LET r == handleUnmatchedCards(w.gameState, w.cards, time)
         IN  [gameState |-> applyUpdate(w.gameState, r.stateUpdates),
              cards |-> ApplyCardUpdates(w.cards, r.cardUpdates)]
    ELSE w

evaluateGameState(w, time) == ApplyUnmatched(ApplyMatches(w), time)

\* A faulty initialization in which the system does create Card entities.
systemInitializeGame_CreatesCards(w, b) ==
    [gameState |->
         applyUpdate(w.gameState,
                     initializeGame(w.gameState, (b.rows * b.columns) \div 2)),
     cards |-> w.cards
               \o createCardEntities(createCardPairs((b.rows * b.columns) \div 2))]

\* GameLogicSystem.initializeGame, run by execute in phase INITIALIZING:
\* initializeBoardWithRandomCards with the system as the world.  The system
\* cannot create the Card entities (createCardEntities catches and logs the
\* error), and GameState is initialized again.
systemInitializeGame(w, b) ==
    [w EXCEPT !.gameState =
        applyUpdate(@, initializeGame(@, (b.rows * b.columns) \div 2))]

\* execute(): timer, input drain, evaluation, then the phase switch.  The
\* clock stands still during a tick: time is currentTime and every
\* performance.now() of the tick.
execute(w, b, events, time) ==
    LET timed == [w EXCEPT !.gameState = applyUpdate(@, updateGameTimer(@, time))]
        drained == processInputEvents(timed, b, events)
        evaluated == evaluateGameState(drained, time)
    IN  IF evaluated.gameState.phase = INITIALIZING
        THEN systemInitializeGame(evaluated, b)
        ELSE evaluated

\* ---------------------------------------------------------------- startup
\* initWorld: setupGameEntities creates the Board and the GameState, and
\* initializeBoardWithRandomCards the cards.
Init ==
    /\ \E config \in BoardConfigs :
           /\ board = createInitialBoard(config)
           /\ \E cardValues \in DrawnCardValues(config) :
                  LET w == initializeBoardWithRandomCards(config, cardValues)
                  IN  cards = w.cards /\ gameState = w.gameState
    /\ inputEvents = <<>>
    /\ now = 0
    /\ call = Idle

\* The state the system's queries show.
World == [gameState |-> gameState, cards |-> cards]

\* ----------------------------------------------------------------- actions
\* performance.now() is monotonic.  A tick is short against the clock: the
\* clock moves on between two ticks and stands still during one.
ClockAdvance ==
    /\ \E t \in Instants : t > now /\ now' = t
    /\ UNCHANGED <<gameState, cards, board, inputEvents, call>>

\* GameLogicSystem.addInputEvent
AddInputEvent ==
    /\ Len(inputEvents) < MaxQueue
    /\ \E event \in InputEvents(board) : inputEvents' = Append(inputEvents, event)
    /\ UNCHANGED <<gameState, cards, board, now, call>>

\* gameState.applyUpdate(startGame), called once, when initialization is done
StartGame ==
    /\ gameState.phase = INITIALIZING
    /\ gameState' = applyUpdate(gameState, startGame(gameState))
    /\ UNCHANGED <<cards, board, inputEvents, now, call>>

\* gameState.applyUpdate(pauseGame)
PauseGame ==
    /\ gameState' = applyUpdate(gameState, pauseGame(gameState))
    /\ UNCHANGED <<cards, board, inputEvents, now, call>>

\* gameState.applyUpdate(resumeGame)
ResumeGame ==
    /\ gameState' = applyUpdate(gameState, resumeGame(gameState))
    /\ UNCHANGED <<cards, board, inputEvents, now, call>>

\* A faulty tick that leaves the processed events in the queue.
Execute_KeepsQueue ==
    /\ gameState.matchCount < MaxMatchCount
    /\ UNCHANGED <<inputEvents, board, now, call>>
    /\ LET w == execute(World, board, inputEvents, now)
       IN  /\ gameState' = w.gameState
           /\ cards' = w.cards

\* One engine tick: GameLogicSystem.execute, which also clears the queue.
Execute ==
    /\ gameState.matchCount < MaxMatchCount
    /\ inputEvents' = <<>>
    /\ UNCHANGED <<board, now, call>>
    /\ LET w == execute(World, board, inputEvents, now)
       IN  /\ gameState' = w.gameState
           /\ cards' = w.cards

Next ==
    \/ ClockAdvance
    \/ AddInputEvent
    \/ StartGame
    \/ PauseGame
    \/ ResumeGame
    \/ Execute

Spec == Init /\ [][Next]_vars

TypeOK ==
    /\ gameState.phase \in {INITIALIZING, READY, PLAYING, PAUSED, GAME_OVER}
    /\ now \in Instants

\* ------------------------------------------------------- claim helpers
\* The cards that are face-up and not matched.
FaceUpUnmatched(cardEntities) ==
    {i \in DOMAIN cardEntities :
        cardEntities[i].isFlipped /\ ~cardEntities[i].isMatched}

MatchedCards == {i \in DOMAIN cards : cards[i].isMatched}

\* The place in cards of the card an event resolves to, 0 when it has none.
Target(event) ==
    IF event.type = "key"
    THEN (IF "entityId" \in DOMAIN event THEN Find(cards, event.entityId) ELSE 0)
    ELSE IF "x" \notin DOMAIN event \/ "y" \notin DOMAIN event THEN 0
    ELSE LET cardIndex == getCardIndexAtPosition(board, event.x, event.y)
         IN  IF cardIndex = -1 \/ cardIndex >= Len(cards) THEN 0 ELSE cardIndex + 1

\* The world a tick started now would hold after its input drain.
Drained ==
    processInputEvents(
        [World EXCEPT !.gameState = applyUpdate(@, updateGameTimer(@, now))],
        board, inputEvents)

\* ----------------------------------------------------------------- claims
\* C1: matchCount is incremented once per confirmed pair: in every state
\* after initialization twice matchCount is the number of matched cards.
C1_MatchCountOncePerPair ==
    2 * gameState.matchCount = Cardinality(MatchedCards)

\* C2: the game ends only when all pairs are matched: in phase GAME_OVER
\* every card is matched.
C2_GameOverOnlyWhenAllMatched ==
    gameState.phase = GAME_OVER => \A i \in DOMAIN cards : cards[i].isMatched

\* C3: after a match that leaves matchCount < totalPairs play continues: in
\* phase PLAYING a selection event that targets a face-down, unmatched card
\* is accepted, the card is flipped face-up and recorded in a slot.
C3_PlayContinuesAfterMatch ==
    (/\ gameState.phase = PLAYING
     /\ gameState.matchCount >= 1
     /\ gameState.matchCount < gameState.totalPairs)
    => \A event \in InputEvents(board) :
           LET t == Target(event)
               r == processGameInput(event, gameState, board, cards)
           IN  (t # 0 /\ ~cards[t].isFlipped /\ ~cards[t].isMatched)
               => /\ r.stateUpdates # NULL
                  /\ t \in DOMAIN r.cardUpdates
                  /\ r.cardUpdates[t].isFlipped
                  /\ cards[t].id \in
                        {applyUpdate(gameState, r.stateUpdates).firstSelectedCardEntityId,
                         applyUpdate(gameState, r.stateUpdates).secondSelectedCardEntityId}

\* C4: matchCount never exceeds totalPairs.
C4_MatchCountAtMostTotalPairs ==
    gameState.matchCount <= gameState.totalPairs

\* C5: the phase is GAME_OVER exactly when matchCount equals totalPairs.
C5_GameOverIffAllPairs ==
    gameState.totalPairs >= 1
    => (gameState.phase = GAME_OVER <=> gameState.matchCount = gameState.totalPairs)

\* C6: GAME_OVER is terminal: no tick, input event, pauseGame or resumeGame
\* changes the phase once it is GAME_OVER.
C6_GameOverTerminal ==
    [][gameState.phase = GAME_OVER => gameState'.phase = GAME_OVER]_vars

\* A tick and a pauseGame and resumeGame call have run in phase GAME_OVER.
C6_Witness ==
    /\ gameState.phase = GAME_OVER
    /\ gameState.matchCount > gameState.totalPairs
    /\ inputEvents # <<>>

\* C7: moveCount grows by exactly 1 in a tick whose input drain fills the
\* second selection slot, and is left alone by everything else: a tick that
\* accepts only a first card or rejects its events, match evaluation, the
\* unflip timeout and the host's calls.
C7_MoveCountPerSecondCard ==
    [][IF Execute
       THEN gameState'.moveCount = gameState.moveCount
                + (IF /\ gameState.secondSelectedCardEntityId = -1
                      /\ Drained.gameState.secondSelectedCardEntityId # -1
                   THEN 1 ELSE 0)
       ELSE gameState'.moveCount = gameState.moveCount]_vars

\* Two pairs were selected, the first of them flipped back by the timeout,
\* and a first card is selected again.
C7_Witness ==
    /\ gameState.moveCount = 2
    /\ gameState.matchCount = 0
    /\ gameState.firstSelectedCardEntityId # -1
    /\ gameState.secondSelectedCardEntityId = -1

\* C8: at most two cards are face-up and unmatched, in every state and
\* after the input drain of a tick, whatever events are queued.
C8_AtMostTwoFaceUp ==
    /\ Cardinality(FaceUpUnmatched(cards)) <= 2
    /\ Cardinality(FaceUpUnmatched(Drained.cards)) <= 2

\* Two cards are face-up and unmatched with both slots taken, and two more
\* selections of face-down cards are queued.
C8_Witness ==
    /\ Cardinality(FaceUpUnmatched(cards)) = 2
    /\ gameState.phase = PLAYING
    /\ Len(inputEvents) = 2
    /\ \A k \in DOMAIN inputEvents :
           /\ Target(inputEvents[k]) # 0
           /\ ~cards[Target(inputEvents[k])].isFlipped

\* C9: isMatched is monotonic: no step sets a matched card's isMatched back
\* to false, and marking a matched card again is a no-op (null).
C9_MatchedMonotonic ==
    [][\A i \in DOMAIN cards :
           cards[i].isMatched
           => /\ cards'[i].isMatched
              /\ matchCard(cards[i]) = NULL]_vars

\* A matched pair has been evaluated again by a later tick.
C9_Witness ==
    /\ MatchedCards # {}
    /\ gameState.matchCount >= 2

\* C10: matched cards stay revealed: a matched card is face-up.
C10_MatchedStayRevealed ==
    \A i \in DOMAIN cards : cards[i].isMatched => cards[i].isFlipped

\* A tick has run in phase PLAYING on a matched pair held in the slots for
\* the unflip delay or longer.
C10_Witness ==
    /\ MatchedCards # {}
    /\ gameState.phase = PLAYING
    /\ gameState.matchCount >= 2
    /\ gameState.elapsedTime + gameState.startTime
           >= gameState.lastMoveTime + NON_MATCH_FLIP_DELAY

\* Both selection slots hold face-up, unmatched cards.
PairUp ==
    /\ gameState.firstSelectedCardEntityId # -1
    /\ gameState.secondSelectedCardEntityId # -1
    /\ Find(cards, gameState.firstSelectedCardEntityId) # 0
    /\ Find(cards, gameState.secondSelectedCardEntityId) # 0
    /\ Find(cards, gameState.firstSelectedCardEntityId) \in FaceUpUnmatched(cards)
    /\ Find(cards, gameState.secondSelectedCardEntityId) \in FaceUpUnmatched(cards)

\* C11: the unflip is gated on the delay: a tick at time now in phase
\* PLAYING on a face-up unmatched selected pair turns both cards face-down
\* and empties the slots if now - lastMoveTime >= 1000, and leaves the cards
\* and the slots as they are if now - lastMoveTime < 1000 (so it fires at
\* lastMoveTime + 1000 and not at lastMoveTime + 999).
C11_UnflipGatedOnDelay ==
    [][(gameState.phase = PLAYING /\ PairUp /\ Execute)
       => LET first == Find(cards, gameState.firstSelectedCardEntityId)
              second == Find(cards, gameState.secondSelectedCardEntityId)
          IN  IF now - gameState.lastMoveTime >= 1000
              THEN /\ ~cards'[first].isFlipped
                   /\ ~cards'[second].isFlipped
                   /\ gameState'.firstSelectedCardEntityId = -1
                   /\ gameState'.secondSelectedCardEntityId = -1
              ELSE /\ cards' = cards
                   /\ gameState'.firstSelectedCardEntityId
                          = gameState.firstSelectedCardEntityId
                   /\ gameState'.secondSelectedCardEntityId
                          = gameState.secondSelectedCardEntityId]_vars

\* A tick has run 999 ms after the second selection and the pair is still
\* face-up in the slots.
C11_Witness ==
    /\ PairUp
    /\ gameState.phase = PLAYING
    /\ now - gameState.lastMoveTime = NON_MATCH_FLIP_DELAY - 1
    /\ gameState.startTime + gameState.elapsedTime = now

\* ------------------------------------------------- play that keeps ticking
\* The game loop (requestAnimationFrame) runs execute() again and again and
\* the clock advances; the game is not paused.  The clock is cut off at
\* MaxTime, so the last instant is reached with an empty queue and no event
\* is enqueued at it: every stamp is taken before the cut-off.
LiveClockAdvance ==
    /\ ClockAdvance
    /\ now' = MaxTime => inputEvents = <<>>

LiveAddInputEvent ==
    /\ now < MaxTime
    /\ AddInputEvent

LiveNext ==
    \/ LiveClockAdvance
    \/ LiveAddInputEvent
    \/ StartGame
    \/ Execute

\* What a tick leaves behind: the queue is empty and, in phase PLAYING, the
\* timer stands at the present instant.
TickedAtNow ==
    /\ inputEvents = <<>>
    /\ gameState.phase = PLAYING
           => gameState.startTime + gameState.elapsedTime = now

\* The clock advances (strong fairness, for the cut-off's guard), and the
\* game loop keeps ticking: again and again the engine has run a tick at the
\* present instant.
LiveSpec ==
    /\ Init
    /\ [][LiveNext]_vars
    /\ SF_vars(LiveClockAdvance)
    /\ []<>TickedAtNow

\* The selection slots of w hold two cards it can find.
PairIn(w) ==
    /\ w.gameState.firstSelectedCardEntityId # -1
    /\ w.gameState.secondSelectedCardEntityId # -1
    /\ Find(w.cards, w.gameState.firstSelectedCardEntityId) # 0
    /\ Find(w.cards, w.gameState.secondSelectedCardEntityId) # 0

\* The two selected cards of w have the same value.
SameValueIn(w) ==
    w.cards[Find(w.cards, w.gameState.firstSelectedCardEntityId)].value
        = w.cards[Find(w.cards, w.gameState.secondSelectedCardEntityId)].value

\* Two cards with different values occupy the selection slots.
Mismatch == PairIn(World) /\ ~SameValueIn(World)

\* C12: a non-matching pair always flips back: while the engine keeps
\* ticking in phase PLAYING and the clock advances, two cards with different
\* values in the selection slots lead to a state where both slots are -1
\* and no unmatched card is face-up.
C12_MismatchFlipsBack ==
    Mismatch
    ~> (/\ gameState.firstSelectedCardEntityId = -1
        /\ gameState.secondSelectedCardEntityId = -1
        /\ FaceUpUnmatched(cards) = {})

\* Two non-matching pairs in a row have been flipped back.
C12_Witness ==
    /\ gameState.moveCount = 2
    /\ gameState.matchCount = 0
    /\ gameState.firstSelectedCardEntityId = -1
    /\ gameState.secondSelectedCardEntityId = -1
    /\ FaceUpUnmatched(cards) = {}

\* The world after the timer update of a tick started now.
Timed ==
    [World EXCEPT !.gameState = applyUpdate(@, updateGameTimer(@, now))]

\* C13: an input event enqueued while the phase is not PLAYING is dropped:
\* in whatever order the host then calls startGame or resumeGame and the
\* engine ticks, the event causes no selection and no flip, so the tick that
\* follows the start or the resume ends as it would without the event.
C13_DroppedOutsidePlaying ==
    [][(/\ gameState.phase # PLAYING
        /\ Len(inputEvents') = Len(inputEvents) + 1)
       => LET resumed ==
                  IF gameState.phase = INITIALIZING
                  THEN applyUpdate(gameState, startGame(gameState))
                  ELSE applyUpdate(gameState, resumeGame(gameState))
              w == [gameState |-> resumed, cards |-> cards]
          IN  execute(w, board, inputEvents', now)
                  = execute(w, board, inputEvents, now)]_vars

CardsAt(x, y) ==
    {i \in DOMAIN cards :
        LET left == ((i - 1) % board.columns) * (board.cardWidth + board.gap)
            top == ((i - 1) \div board.columns) * (board.cardHeight + board.gap)
        IN  /\ left <= x /\ x <= left + board.cardWidth
            /\ top <= y /\ y <= top + board.cardHeight}

\* The place in cards of the card an event is aimed at, 0 when it lacks
\* coordinates or a target id, names an unknown id, or points at no card.
Aim(event) ==
    IF event.type = "key"
    THEN (IF "entityId" \in DOMAIN event
          THEN (IF \E i \in DOMAIN cards : cards[i].id = event.entityId
                THEN CHOOSE i \in DOMAIN cards : cards[i].id = event.entityId
                ELSE 0)
          ELSE 0)
    ELSE IF "x" \notin DOMAIN event \/ "y" \notin DOMAIN event THEN 0
    ELSE IF CardsAt(event.x, event.y) = {} THEN 0
    ELSE CHOOSE i \in CardsAt(event.x, event.y) : TRUE

\* An event aimed at no card, or at a card that is matched or face-up.
Rejectable(event) ==
    \/ Aim(event) = 0
    \/ cards[Aim(event)].isMatched
    \/ cards[Aim(event)].isFlipped

C16_NoThirdCardNoReselect ==
    /\ \A i \in DOMAIN cards :
           (\/ /\ gameState.firstSelectedCardEntityId # -1
               /\ gameState.secondSelectedCardEntityId # -1
            \/ cards[i].id = gameState.firstSelectedCardEntityId
            \/ cards[i].id = gameState.secondSelectedCardEntityId)
           => selectCard(gameState, cards[i].id, cards[i].value) = NULL
    /\ (\/ /\ gameState.firstSelectedCardEntityId # -1
           /\ gameState.secondSelectedCardEntityId # -1
        \/ \A k \in DOMAIN inputEvents :
               /\ Target(inputEvents[k]) # 0
               /\ cards[Target(inputEvents[k])].id
                      = gameState.firstSelectedCardEntityId)
       => /\ Drained.cards = cards
          /\ Drained.gameState.firstSelectedCardEntityId
                 = gameState.firstSelectedCardEntityId
          /\ Drained.gameState.secondSelectedCardEntityId
                 = gameState.secondSelectedCardEntityId
          /\ Drained.gameState.moveCount = gameState.moveCount
          /\ Drained.gameState.lastMoveTime = gameState.lastMoveTime

\* One card is selected and two more selections of that card are queued.
C16_Witness ==
    /\ gameState.phase = PLAYING
    /\ gameState.firstSelectedCardEntityId # -1
    /\ gameState.secondSelectedCardEntityId = -1
    /\ Len(inputEvents) = 2
    /\ \A k \in DOMAIN inputEvents :
           /\ Target(inputEvents[k]) # 0
           /\ cards[Target(inputEvents[k])].id = gameState.firstSelectedCardEntityId

\* C17: a tick that evaluates a same-valued pair in the slots adds exactly
\* 50 + floor((3000 - t) / 100) to score if t < 3000 and exactly 50 if
\* t >= 3000, t being now minus the lastMoveTime the drain left (the stamp
\* of the second card's selection); a tick that evaluates a pair of
\* different values, or no pair, changes neither score nor matchCount.
C17_ScorePerMatch ==
    [][Execute
       => LET t == now - Drained.gameState.lastMoveTime
          IN  IF PairIn(Drained) /\ SameValueIn(Drained)
              THEN /\ gameState'.matchCount = gameState.matchCount + 1
                   /\ gameState'.score
                          = gameState.score
                            + (IF t < 3000 THEN 50 + (3000 - t) \div 100 ELSE 50)
              ELSE /\ gameState'.matchCount = gameState.matchCount
                   /\ gameState'.score = gameState.score]_vars

\* A pair was evaluated at t = 0 (80 points) and at t >= 3000 (50 points).
C17_Witness ==
    /\ gameState.matchCount = 2
    /\ gameState.score = 130

\* C18: when the unmatched-card timeout fires, both selected cards become
\* face-down with flipProgress 1, both slots become -1 and lastMoveTime
\* becomes now; score, matchCount, moveCount, phase and every other card stay
\* as they are.
C18_TimeoutEffect ==
    [][(/\ gameState.phase = PLAYING
        /\ PairUp
        /\ now - gameState.lastMoveTime >= NON_MATCH_FLIP_DELAY
        /\ Execute)
       => LET first == Find(cards, gameState.firstSelectedCardEntityId)
              second == Find(cards, gameState.secondSelectedCardEntityId)
          IN  /\ cards'[first] = [cards[first] EXCEPT !.isFlipped = FALSE,
                                                      !.flipProgress = 1]
              /\ cards'[second] = [cards[second] EXCEPT !.isFlipped = FALSE,
                                                        !.flipProgress = 1]
              /\ \A i \in DOMAIN cards \ {first, second} : cards'[i] = cards[i]
              /\ gameState'.firstSelectedCardEntityId = -1
              /\ gameState'.secondSelectedCardEntityId = -1
              /\ gameState'.lastMoveTime = now
              /\ gameState'.score = gameState.score
              /\ gameState'.matchCount = gameState.matchCount
              /\ gameState'.moveCount = gameState.moveCount
              /\ gameState'.phase = gameState.phase]_vars

\* The timeout has fired at the last instant on the first pair selected.
C18_Witness ==
    /\ gameState.moveCount = 1
    /\ gameState.matchCount = 0
    /\ gameState.firstSelectedCardEntityId = -1
    /\ gameState.secondSelectedCardEntityId = -1
    /\ gameState.lastMoveTime = MaxTime
    /\ Cardinality({i \in DOMAIN cards :
                       ~cards[i].isFlipped /\ cards[i].flipProgress = 1}) = 2

\* C19: a tick in phase PLAYING sets startTime to now if it was unset (0)
\* and elapsedTime to (now - startTime) / 1000, here in thousandths of a
\* second; a tick in any other phase leaves elapsedTime and startTime as they
\* are.
C19_TimerUpdate ==
    [][Execute
       => IF gameState.phase = PLAYING
          THEN /\ gameState'.startTime
                      = (IF gameState.startTime = 0 THEN now ELSE gameState.startTime)
               /\ gameState'.elapsedTime = now - gameState'.startTime
          ELSE /\ gameState'.startTime = gameState.startTime
               /\ gameState'.elapsedTime = gameState.elapsedTime]_vars

\* The first tick of play set the unset startTime to 1, and a later tick
\* measured 999 ms from it.
C19_Witness ==
    /\ gameState.startTime = 1
    /\ gameState.elapsedTime = 999

\* C20: pauseGame outside PLAYING and resumeGame outside PAUSED return null
\* and leave GameState as it is; pauseGame in PLAYING yields PAUSED and
\* resumeGame in PAUSED yields PLAYING.
C20_InvalidTransitionsNull ==
    /\ gameState.phase # PLAYING
           => /\ pauseGame(gameState) = NULL
              /\ applyUpdate(gameState, pauseGame(gameState)) = gameState
    /\ gameState.phase # PAUSED
           => /\ resumeGame(gameState) = NULL
              /\ applyUpdate(gameState, resumeGame(gameState)) = gameState
    /\ gameState.phase = PLAYING
           => applyUpdate(gameState, pauseGame(gameState)).phase = PAUSED
    /\ gameState.phase = PAUSED
           => applyUpdate(gameState, resumeGame(gameState)).phase = PLAYING

\* The game was paused, resumed at a later instant and paused again.
C20_Witness ==
    /\ gameState.phase = PAUSED
    /\ gameState.moveCount = 0
    /\ gameState.startTime > 0
    /\ gameState.lastMoveTime > gameState.startTime

\* -------------------------------------------- the run of the initialization
\* initWorld on a board of any size, generateCardValuesForBoard run step by
\* step: the Board and a GameState with Becsy's zeroed fields exist, the
\* cards do not yet.
NewGameState ==
    [moveCount |-> 0, matchCount |-> 0, totalPairs |-> 0,
     elapsedTime |-> 0, startTime |-> 0, phase |-> 0,
     firstSelectedCardEntityId |-> 0, secondSelectedCardEntityId |-> 0,
     lastMoveTime |-> 0, score |-> 0]

GenInit ==
    /\ \E rows \in 1..MaxRows, columns \in 1..MaxColumns :
           board = createInitialBoard(
                       [rows |-> rows, columns |-> columns,
                        cardWidth |-> cardWidth, cardHeight |-> cardHeight,
                        gap |-> gap])
    /\ gameState = NewGameState
    /\ cards = <<>>
    /\ inputEvents = <<>>
    /\ now = 0
    /\ call = Idle

\* initializeBoardWithRandomCards up to its call of the generator
InitializeBoard ==
    /\ call.pc = "idle"
    /\ call' = generateCardValuesForBoard(board.rows, board.columns, <<>>)
    /\ UNCHANGED <<gameState, cards, board, inputEvents, now>>

\* One pass of shuffle's loop: j = Math.floor(Math.random() * (i + 1))
ShuffleStep ==
    /\ call.pc = "shuffle"
    /\ call.i > 0
    /\ \E j \in 0..call.i :
           call' = [call EXCEPT !.result = Swap(call.result, call.i, j),
                                !.i = call.i - 1]
    /\ UNCHANGED <<gameState, cards, board, inputEvents, now>>

\* shuffle returns, to ensureFairDistribution's loop test
ShuffleReturn ==
    /\ call.pc = "shuffle"
    /\ call.i <= 0
    /\ call' = [call EXCEPT !.pc = "fair"]
    /\ UNCHANGED <<gameState, cards, board, inputEvents, now>>

\* A faulty loop test without the bound on the attempts.
EnsureFairDistribution_Unbounded ==
    /\ call.pc = "fair"
    /\ call' = IF hasAdjacentPairs(call.result)
               THEN EnterShuffle(call.result, call.attempts + 1, call.previous)
               ELSE [call EXCEPT !.pc = "returned"]
    /\ UNCHANGED <<gameState, cards, board, inputEvents, now>>

\* ensureFairDistribution's loop test: shuffle again, or return the result
EnsureFairDistribution ==
    /\ call.pc = "fair"
    /\ call' = IF hasAdjacentPairs(call.result) /\ call.attempts < maxAttempts
               THEN EnterShuffle(call.result, call.attempts + 1, call.previous)
               ELSE [call EXCEPT !.pc = "returned"]
    /\ UNCHANGED <<gameState, cards, board, inputEvents, now>>

\* The generator is run once more for the same board (a test's second run,
\* or the next initialization), the first result kept for comparison.
GenerateAgain ==
    /\ call.pc = "returned"
    /\ call.previous = <<>>
    /\ call' = generateCardValuesForBoard(board.rows, board.columns, call.result)
    /\ UNCHANGED <<gameState, cards, board, inputEvents, now>>

\* initializeBoardWithRandomCards after the generator: the cards and the
\* initialized GameState; an error of the generator is caught by the
\* function's own try, logged, and the function returns.
FinishInitialize ==
    /\ \/ /\ call.pc = "returned"
          /\ cards' = createCardEntities(call.result)
          /\ gameState' = applyUpdate(gameState,
                              initializeGame(gameState,
                                             (board.rows * board.columns) \div 2))
          /\ call' = [pc |-> "initialized", caught |-> FALSE]
       \/ /\ call.pc = "raised"
          /\ UNCHANGED <<cards, gameState>>
          /\ call' = [pc |-> "initialized", caught |-> TRUE]
    /\ UNCHANGED <<board, inputEvents, now>>

GenNext ==
    \/ InitializeBoard
    \/ ShuffleStep
    \/ ShuffleReturn
    \/ EnsureFairDistribution
    \/ GenerateAgain
    \/ FinishInitialize

GenSpec == GenInit /\ [][GenNext]_vars

\* The board has an odd number of cards.
OddBoard == (board.rows * board.columns) % 2 = 1

\* C21: generateCardValuesForBoard raises the configuration error for every
\* rows, columns with an odd product and returns no sequence then (and
\* raises no error for an even product).
C21_OddBoardRaises ==
    /\ OddBoard => call.pc \in {"idle", "raised", "initialized"}
    /\ ~OddBoard => call.pc # "raised"

\* The generator was called for a board of three rows and an odd number of
\* columns.
C21_Witness ==
    /\ call.pc = "raised"
    /\ board.rows = 3

\* C22: initializeBoardWithRandomCards called with a board whose
\* rows * columns is odd raises the error to its caller: it does not return
\* normally.
C22_InitializationHalts ==
    OddBoard => call.pc # "initialized"

\* C23: for an even rows * columns the generator returns a sequence of
\* length rows * columns in which every integer of 1..rows*columns/2 occurs
\* exactly twice and nothing else occurs, whatever j the shuffles drew.
C23_EveryValueTwice ==
    call.pc = "returned"
    => LET n == board.rows * board.columns
       IN  /\ Len(call.result) = n
           /\ \A k \in 1..n : call.result[k] \in 1..(n \div 2)
           /\ \A v \in 1..(n \div 2) : CountOf(call.result, v) = 2

\* A sequence is returned after all the reshuffles, still with two equal
\* neighbours.
C23_Witness ==
    /\ call.pc = "returned"
    /\ call.attempts = maxAttempts
    /\ hasAdjacentPairs(call.result)
    /\ Len(call.result) = 6

\* C27: two runs of the pair generator for the same rows and columns return
\* the same sequence.  (The generator takes no seed and no random source:
\* shuffle reads Math.random(), createRandomGenerator is called by no code.)
C27_SameSequenceTwice ==
    (call.pc = "returned" /\ call.previous # <<>>)
    => call.result = call.previous

DrawnGameStates(b, cardEntities) ==
    {[moveCount |-> moveCount, matchCount |-> matchCount,
      totalPairs |-> (b.rows * b.columns) \div 2,
      elapsedTime |-> elapsedTime, startTime |-> 0, phase |-> phase,
      firstSelectedCardEntityId |-> first,
      secondSelectedCardEntityId |-> second,
      lastMoveTime |-> 0, score |-> 0] :
        moveCount \in {0, 12, 19}, matchCount \in {0, 2},
        elapsedTime \in {0, 119, 120, MaxTime},
        phase \in {PLAYING, PAUSED, GAME_OVER},
        first \in {-1, 0, Len(cardEntities)},
        second \in {-1, 1, Len(cardEntities)}}

\* The points the hit test is called on: the edges of the first card, of
\* the gap after it and of the grid, and points outside.
DrawnXs(b) ==
    {-1, 0, b.cardWidth - 1, b.cardWidth, b.cardWidth + 1,
     b.cardWidth + b.gap, b.width - 1, b.width, b.width + b.gap}

DrawnYs(b) ==
    {-1, 0, b.cardHeight - 1, b.cardHeight, b.cardHeight + 1,
     b.height + b.gap}

FnInit ==
    /\ \E config \in BoardConfigs : board = createInitialBoard(config)
    /\ \E faceUp \in BOOLEAN :
           cards = [i \in 1..(board.rows * board.columns) |->
                       [id |-> i - 1,
                        value |-> createCardPairs(
                                      (board.rows * board.columns) \div 2)[i],
                        isFlipped |-> faceUp, isMatched |-> FALSE,
                        flipProgress |-> 0]]
    /\ gameState \in DrawnGameStates(board, cards)
    /\ inputEvents = <<>>
    /\ now \in {0, MaxTime}
    /\ call = Idle

CallGetCardIndexAtPosition ==
    /\ call.pc = "idle"
    /\ \E x \in DrawnXs(board), y \in DrawnYs(board) :
           call' = [pc |-> "returned", fn |-> "getCardIndexAtPosition",
                    x |-> x, y |-> y,
                    result |-> getCardIndexAtPosition(board, x, y)]
    /\ UNCHANGED <<gameState, cards, board, inputEvents, now>>

CallCalculateFinalScore ==
    /\ call.pc = "idle"
    /\ call' = [pc |-> "returned", fn |-> "calculateFinalScore",
                state |-> gameState,
                result |-> calculateFinalScore(gameState)]
    /\ UNCHANGED <<gameState, cards, board, inputEvents, now>>

\* GameLogicSystem.evaluateGameState: match evaluation, then the timeout
\* stage while PLAYING
CallEvaluateGameState ==
    /\ call.pc = "idle"
    /\ LET w == evaluateGameState(World, now)
       IN  /\ gameState' = w.gameState
           /\ cards' = w.cards
    /\ call' = [pc |-> "returned", fn |-> "evaluateGameState",
                state |-> gameState]
    /\ UNCHANGED <<board, inputEvents, now>>

\* handleUnmatchedCards alone, its updates applied
CallHandleUnmatchedCards ==
    /\ call.pc = "idle"
    /\ LET r == handleUnmatchedCards(gameState, cards, now)
       IN  /\ gameState' = applyUpdate(gameState, r.stateUpdates)
           /\ cards' = ApplyCardUpdates(cards, r.cardUpdates)
    /\ call' = [pc |-> "returned", fn |-> "handleUnmatchedCards",
                state |-> gameState]
    /\ UNCHANGED <<board, inputEvents, now>>

FnNext ==
    \/ CallGetCardIndexAtPosition
    \/ CallCalculateFinalScore
    \/ CallEvaluateGameState
    \/ CallHandleUnmatchedCards

FnSpec == FnInit /\ [][FnNext]_vars

\* The function fn has returned.
Returned(fn) == call.pc = "returned" /\ call.fn = fn

\* C25: getCardIndexAtPosition(board, x, y) is row * columns + col exactly
\* when the point is inside the grid and its offset within its cell lies in
\* [0, cardWidth) x [0, cardHeight); for every other point (in a gap, on the
\* offset cardWidth or cardHeight itself, outside the grid) it is -1.
C25_HitTestHalfOpen ==
    Returned("getCardIndexAtPosition")
    => LET inside(row, col) ==
               /\ call.x - col * (board.cardWidth + board.gap)
                      \in 0..(board.cardWidth - 1)
               /\ call.y - row * (board.cardHeight + board.gap)
                      \in 0..(board.cardHeight - 1)
           cells == (0..(board.rows - 1)) \X (0..(board.columns - 1))
       IN  /\ \A c \in cells :
                  inside(c[1], c[2]) => call.result = c[1] * board.columns + c[2]
           /\ (\A c \in cells : ~inside(c[1], c[2])) => call.result = -1

\* C26: calculateFinalScore is matchCount * 100 + max(0, 120 - elapsedTime)
\* * 5 + max(0, totalPairs * 2 * 3 - moveCount) * 10 for every state; both
\* bonus terms floor at zero, so it is never below matchCount * 100.
C26_FinalScore ==
    Returned("calculateFinalScore")
    => LET state == call.state
           timeBonus == IF state.elapsedTime < 120
                        THEN (120 - state.elapsedTime) * 5 ELSE 0
           moveBonus == IF state.moveCount < state.totalPairs * 2 * 3
                        THEN (state.totalPairs * 2 * 3 - state.moveCount) * 10
                        ELSE 0
       IN  /\ call.result = state.matchCount * 100 + timeBonus + moveBonus
           /\ call.result >= state.matchCount * 100

\* The score of a slow game with too many moves: both bonus terms are at
\* their floor.
C26_Witness ==
    /\ Returned("calculateFinalScore")
    /\ call.state.elapsedTime > 120
    /\ call.state.moveCount > call.state.totalPairs * 2 * 3
    /\ call.state.matchCount > 0
    /\ call.result = call.state.matchCount * 100

\* Both selection slots of state are filled and one of them names no card.
InvalidReference(state) ==
    /\ state.firstSelectedCardEntityId # -1
    /\ state.secondSelectedCardEntityId # -1
    /\ \/ Find(cards, state.firstSelectedCardEntityId) = 0
       \/ Find(cards, state.secondSelectedCardEntityId) = 0

\* C29: invalid-reference recovery: when both selection slots are filled
\* and at least one id resolves to no card, match evaluation and the
\* timeout stage clear both slots to -1 and change neither matchCount,
\* score, phase nor any card.
C29_InvalidReferenceRecovery ==
    [][(/\ InvalidReference(gameState)
        /\ call'.pc = "returned"
        /\ call'.fn \in {"evaluateGameState", "handleUnmatchedCards"})
       => /\ gameState'.firstSelectedCardEntityId = -1
          /\ gameState'.secondSelectedCardEntityId = -1
          /\ gameState'.matchCount = gameState.matchCount
          /\ gameState'.score = gameState.score
          /\ gameState'.phase = gameState.phase
          /\ cards' = cards]_vars

\* The evaluation has run in phase PAUSED on a first slot that names a
\* face-up card and a second slot that names no card, and has cleared both.
C29_Witness ==
    /\ Returned("evaluateGameState")
    /\ call.state.phase = PAUSED
    /\ call.state.firstSelectedCardEntityId = 0
    /\ call.state.secondSelectedCardEntityId = Len(cards)
    /\ cards[1].isFlipped
    /\ gameState.firstSelectedCardEntityId = -1
    /\ gameState.secondSelectedCardEntityId = -1

\* The queue holds exactly two events, aimed at two distinct cards that are
\* face-down and unmatched, while PLAYING with both slots empty.
TwoSelectionsQueued ==
    /\ gameState.phase = PLAYING
    /\ gameState.firstSelectedCardEntityId = -1
    /\ gameState.secondSelectedCardEntityId = -1
    /\ Len(inputEvents) = 2
    /\ Aim(inputEvents[1]) # 0
    /\ Aim(inputEvents[2]) # 0
    /\ Aim(inputEvents[1]) # Aim(inputEvents[2])
    /\ \A k \in 1..2 : /\ ~cards[Aim(inputEvents[k])].isFlipped
                       /\ ~cards[Aim(inputEvents[k])].isMatched

\* The world after the first k events of the queue, from the timer update on.
AfterEvents(k) == ProcessEventsFrom(Timed, board, SubSeq(inputEvents, 1, k), 1)

\* How many of the two slots, and how many cards' faces, differ between v, w.
SlotsChanged(v, w) ==
    (IF v.gameState.firstSelectedCardEntityId
            # w.gameState.firstSelectedCardEntityId THEN 1 ELSE 0)
    + (IF v.gameState.secondSelectedCardEntityId
              # w.gameState.secondSelectedCardEntityId THEN 1 ELSE 0)

Flips(v, w) ==
    Cardinality({i \in DOMAIN v.cards : v.cards[i].isFlipped # w.cards[i].isFlipped})

\* C28: within one tick the queued events are applied in arrival order, each
\* on the state the previous one left: with both slots empty and queued
\* selections of two distinct face-down unmatched cards A then B, after the
\* tick the first slot holds A, the second holds B and moveCount grew by
\* exactly 1; each event changes at most one slot and flips at most one card.
C28_ArrivalOrder ==
    [][(Len(inputEvents) > 0 /\ Execute)
       => /\ \/ ~TwoSelectionsQueued
             \/ /\ gameState'.firstSelectedCardEntityId
                       = cards[Aim(inputEvents[1])].id
                /\ gameState'.secondSelectedCardEntityId
                       = cards[Aim(inputEvents[2])].id
                /\ gameState'.moveCount = gameState.moveCount + 1
          /\ \A k \in 1..Len(inputEvents) :
                 LET v == AfterEvents(k - 1)
                     w == ProcessEventsFrom(v, board, <<inputEvents[k]>>, 1)
                 IN  SlotsChanged(v, w) <= 1 /\ Flips(v, w) <= 1]_vars

\* After an earlier unflip, two selections are queued with the card of the
\* higher id first.
C28_Witness ==
    /\ TwoSelectionsQueued
    /\ gameState.moveCount >= 1
    /\ cards[Aim(inputEvents[1])].id > cards[Aim(inputEvents[2])].id

\* C30: when a tick confirms a pair while matchCount is totalPairs - 1, the
\* same tick sets phase to GAME_OVER with matchCount = totalPairs and leaves
\* both slots holding the ids of that pair; once the game is over no step
\* changes the slots (or the phase).
C30_LastPairEndsGame ==
    [][/\ \/ gameState.matchCount # gameState.totalPairs - 1
          \/ ~Execute
          \/ ~(PairIn(Drained) /\ SameValueIn(Drained))
          \/ /\ gameState'.phase = GAME_OVER
             /\ gameState'.matchCount = gameState'.totalPairs
             /\ gameState'.firstSelectedCardEntityId
                    = Drained.gameState.firstSelectedCardEntityId
             /\ gameState'.secondSelectedCardEntityId
                    = Drained.gameState.secondSelectedCardEntityId
       /\ \/ gameState.phase # GAME_OVER
          \/ /\ gameState'.phase = GAME_OVER
             /\ gameState'.firstSelectedCardEntityId
                    = gameState.firstSelectedCardEntityId
             /\ gameState'.secondSelectedCardEntityId
                    = gameState.secondSelectedCardEntityId]_vars

\* The one pair of the 1 x 2 board was found with the first move: the game
\* is over, every card is matched and the slots hold the pair; a later tick
\* has run since (the clock has moved on and the queue was emptied again).
C30_Witness ==
    /\ Len(cards) = 2
    /\ gameState.phase = GAME_OVER
    /\ gameState.moveCount = 1
    /\ MatchedCards = DOMAIN cards
    /\ {gameState.firstSelectedCardEntityId,
        gameState.secondSelectedCardEntityId} = {0, 1}
    /\ gameState.matchCount > gameState.totalPairs
    /\ now > gameState.lastMoveTime

\* The steps of a run of shuffle and of ensureFairDistribution's loop.
InPass == call.pc \in {"shuffle", "fair"}

\* What is left of the pass: the reshuffles still allowed, then the passes
\* of shuffle's loop still to run, then shuffle's return.
Remaining(c) ==
    (maxAttempts - c.attempts) * (Len(c.result) + 1)
    + c.i + (IF c.pc = "shuffle" THEN 1 ELSE 0)

\* C31: the fairness pass is bounded and keeps the contents: it reshuffles
\* at most maxAttempts times and every step brings it nearer to its return,
\* every step leaves the same values with the same multiplicities, and an
\* input without adjacent equal values is returned in unchanged order with
\* no reshuffle.
C31_FairnessPassBounded ==
    [][InPass
       => /\ call'.attempts <= maxAttempts
          /\ \A v \in 1..Len(call.result) :
                 CountOf(call'.result, v) = CountOf(call.result, v)
          /\ Len(call'.result) = Len(call.result)
          /\ call'.pc \in {"shuffle", "fair"} => Remaining(call') < Remaining(call)
          /\ call'.pc \notin {"shuffle", "fair"} => call'.pc = "returned"
          /\ (call.pc = "fair" /\ ~hasAdjacentPairs(call.result))
             => (call'.pc = "returned" /\ call'.result = call.result
                 /\ call'.attempts = call.attempts)]_vars

\* The first shuffle of a four-card board left no equal neighbours and the
\* pass returned it as it was, without a reshuffle.
C31_Witness ==
    /\ call.pc = "returned"
    /\ call.attempts = 0
    /\ Len(call.result) = 4
    /\ ~hasAdjacentPairs(call.result)

\* Two equal values are neighbours in values.
EqualNeighbours(values) ==
    \E k \in 1..(Len(values) - 1) : values[k] = values[k + 1]

\* The board has an arrangement without equal neighbours: 1, .., p, 1, .., p
\* is one as soon as there are two pairs.
Avoidable ==
    LET n == board.rows * board.columns
    IN  ~EqualNeighbours([k \in 1..n |-> ((k - 1) % (n \div 2)) + 1])

\* C32 as stated: for every even board that has an arrangement without
\* adjacent equal values, the returned sequence has no two identical values
\* at adjacent positions.
C32_NoEqualNeighbours ==
    (call.pc = "returned" /\ Avoidable) => ~EqualNeighbours(call.result)

\* C32 as amended: the returned sequence has no two identical values at
\* adjacent positions unless all maxAttempts reshuffles were used.
C32_NoEqualNeighboursUnlessExhausted ==
    (call.pc = "returned" /\ call.attempts < maxAttempts)
    => ~EqualNeighbours(call.result)

\* A six-card sequence is returned after two reshuffles, the second of
\* which removed the last equal neighbours.
C32_Witness ==
    /\ call.pc = "returned"
    /\ call.attempts = 2
    /\ Len(call.result) = 6
    /\ Avoidable
    /\ ~EqualNeighbours(call.result)

\* C33: startup follows INITIALIZING -> READY -> PLAYING: the phase leaves
\* INITIALIZING only to READY and PLAYING is entered only from READY or
\* PAUSED (so that a run from a fresh world reaches PLAYING through READY).
C33_StartupThroughReady ==
    [][/\ (gameState.phase = INITIALIZING /\ gameState'.phase # INITIALIZING)
          => gameState'.phase = READY
       /\ (gameState.phase # PLAYING /\ gameState'.phase = PLAYING)
          => gameState.phase \in {READY, PAUSED}]_vars

\* C34: a tick executed while the phase is PAUSED or GAME_OVER changes no
\* field of GameState and no field of a Card, whatever the slots hold and
\* whatever events are queued.
C34_TickOutsidePlayChangesNothing ==
    [][\/ gameState.phase \notin {PAUSED, GAME_OVER}
       \/ ~Execute
       \/ (gameState' = gameState /\ cards' = cards)]_vars

\* C35: every match costs a move: after initialization matchCount <=
\* moveCount in every state, so a game that is over has moveCount >=
\* totalPairs.
C35_MatchesCostMoves ==
    /\ gameState.matchCount <= gameState.moveCount
    /\ gameState.phase = GAME_OVER => gameState.moveCount >= gameState.totalPairs

\* C36: the selection slots are well formed in every state after
\* initialization: the second slot is never occupied while the first is -1,
\* two occupied slots hold different ids, and every card an occupied slot
\* names is face-up.
C36_SlotsWellFormed ==
    LET first == gameState.firstSelectedCardEntityId
        second == gameState.secondSelectedCardEntityId
    IN  /\ first = -1 => second = -1
        /\ (first # -1 /\ second # -1) => first # second
        /\ \A i \in DOMAIN cards :
               (cards[i].id \in {first, second}) => cards[i].isFlipped

\* Two different cards are in the slots and a third card is queued.
C36_Witness ==
    /\ PairUp
    /\ gameState.firstSelectedCardEntityId > gameState.secondSelectedCardEntityId
    /\ \E k \in DOMAIN inputEvents :
           /\ Aim(inputEvents[k]) # 0
           /\ ~cards[Aim(inputEvents[k])].isFlipped

\* C37: pausing restarts the unflip delay: resumeGame stamps lastMoveTime =
\* now; a non-matching face-up pair in the slots is left alone by every
\* step taken while PAUSED, and by a PLAYING tick earlier than 1000 ms
\* after lastMoveTime, and a PLAYING tick at or after that time turns both
\* cards face-down and empties the slots.
C37_PauseRestartsDelay ==
    [][/\ (gameState.phase = PAUSED /\ gameState'.phase = PLAYING)
          => gameState'.lastMoveTime = now
       /\ \/ ~(PairUp /\ ~SameValueIn(World))
          \/ /\ (gameState.phase = PAUSED /\ gameState'.phase = PAUSED)
                => /\ cards' = cards
                   /\ gameState'.firstSelectedCardEntityId
                          = gameState.firstSelectedCardEntityId
                   /\ gameState'.secondSelectedCardEntityId
                          = gameState.secondSelectedCardEntityId
             /\ \/ gameState.phase # PLAYING
                \/ ~Execute
                \/ IF now - gameState.lastMoveTime < NON_MATCH_FLIP_DELAY
                   THEN cards' = cards
                   ELSE /\ FaceUpUnmatched(cards') = {}
                        /\ gameState'.firstSelectedCardEntityId = -1
                        /\ gameState'.secondSelectedCardEntityId = -1]_vars

\* The game was resumed at 1000 ms with a non-matching pair face-up that
\* was selected before the pause: lastMoveTime is the time of the resume,
\* later than the last tick's timer reading, and the pair is still up.
C37_Witness ==
    /\ gameState.phase = PLAYING
    /\ PairUp
    /\ ~SameValueIn(World)
    /\ now = NON_MATCH_FLIP_DELAY
    /\ gameState.lastMoveTime = now
    /\ gameState.startTime + gameState.elapsedTime < gameState.lastMoveTime

\* ------------------------------------------------------ the board geometry
\* calculateCardPosition and getCardIndexAtPosition on boards of every
\* shape up to MaxRows x MaxColumns, with small and large cards and with
\* and without a gap.  Card sizes and gaps are even, so that the centres
\* are whole pixels; both functions give the same indices when every length
\* and coordinate is doubled, which covers the odd sizes.
GeoInit ==
    /\ \E rows \in 1..MaxRows, columns \in 1..MaxColumns,
          width \in {2, 4, cardWidth}, height \in {2, 6, cardHeight},
          space \in {0, 2, gap} :
           board = createInitialBoard(
                       [rows |-> rows, columns |-> columns,
                        cardWidth |-> width, cardHeight |-> height,
                        gap |-> space])
    /\ gameState = NewGameState
    /\ cards = <<>>
    /\ inputEvents = <<>>
    /\ now = 0
    /\ call = Idle

\* calculateCardPosition on every index from -1 to rows * columns
CallCalculateCardPosition ==
    /\ call.pc = "idle"
    /\ \E index \in (-1)..(board.rows * board.columns) :
           call' = [pc |-> "returned", fn |-> "calculateCardPosition",
                    index |-> index,
                    result |-> calculateCardPosition(board, index)]
    /\ UNCHANGED <<gameState, cards, board, inputEvents, now>>

GeoNext ==
    \/ CallCalculateCardPosition
    \/ CallGetCardIndexAtPosition

GeoSpec == GeoInit /\ [][GeoNext]_vars

\* C38: board geometry round-trips: for every index i in [0, rows*columns)
\* getCardIndexAtPosition applied to the centre calculateCardPosition(board,
\* i) returns is i, and calculateCardPosition fails for every index outside
\* [0, rows*columns).
C38_GeometryRoundTrip ==
    Returned("calculateCardPosition")
    => IF call.index \in 0..(board.rows * board.columns - 1)
       THEN /\ call.result # OutOfBounds
            /\ getCardIndexAtPosition(board, call.result.x, call.result.y)
                   = call.index
       ELSE call.result = OutOfBounds

\* The centre of the last card of a 2 x 3 board of 2 x 2 pixel cards without
\* a gap was computed.
C38_Witness ==
    /\ Returned("calculateCardPosition")
    /\ board.rows = 2 /\ board.columns = 3
    /\ board.cardWidth = 2 /\ board.cardHeight = 2 /\ board.gap = 0
    /\ call.index = 5
    /\ call.result = [x |-> 5, y |-> 3]

\* ------------------------------------------------- AssetLoadingSystem
\* initialize() and loadAssets() with the asset loader's promises.  call
\* holds the run: the AssetLoadingState component, the safety timer, the
\* image loads (none, pending, loaded, failed) and preloadAllCardImages'
\* loadedCount.  progress is the fraction <<loaded, total>>.  The textures
\* assignImagesToCards sets are not part of the model.
CardFronts == 0..(MaxCardFronts - 1)

createLoadingStateEntity ==
    [isLoading |-> TRUE, totalAssets |-> 0, loadedAssets |-> 0,
     progress |-> <<0, 1>>, allAssetsLoaded |-> FALSE]

LoadInit ==
    /\ \E config \in BoardConfigs :
           /\ board = createInitialBoard(config)
           /\ \E cardValues \in DrawnCardValues(config) :
                  LET w == initializeBoardWithRandomCards(config, cardValues)
                  IN  cards = w.cards /\ gameState = w.gameState
    /\ inputEvents = <<>>
    /\ now = 0
    /\ call = [pc |-> "initialize",
               loadingState |-> createLoadingStateEntity,
               safetyTimeout |-> "none",
               cardBack |-> "none",
               cardFronts |-> [id \in CardFronts |-> "none"],
               loadedCount |-> 0]

\* updateProgress with loadAssets' onProgress
updateProgress(c) ==
    [c EXCEPT !.loadedCount = @ + 1,
              !.loadingState.loadedAssets = c.loadedCount + 1,
              !.loadingState.totalAssets = MaxCardFronts + 1,
              !.loadingState.progress = <<c.loadedCount + 1, MaxCardFronts + 1>>]

\* loadAssets after its await, on both the normal and the catch path:
\* clearTimeout and the two flags
FinishLoading(c) ==
    [c EXCEPT !.pc = "done",
              !.safetyTimeout = IF @ = "armed" THEN "cleared" ELSE @,
              !.loadingState.isLoading = FALSE,
              !.loadingState.allAssetsLoaded = TRUE]

\* loadAssets up to its await: the timer is set, isLoading is true and
\* preloadAllCardImages waits for the card back
LoadAssets ==
    /\ call.pc = "initialize"
    /\ call' = [call EXCEPT !.pc = "cardBack",
                            !.safetyTimeout = "armed",
                            !.loadingState.isLoading = TRUE,
                            !.cardBack = "pending"]
    /\ UNCHANGED <<gameState, cards, board, inputEvents, now>>

\* image.onload of the card back: progress, then every front starts to load
CardBackLoads ==
    /\ call.pc = "cardBack"
    /\ call' = [updateProgress(call) EXCEPT
                   !.pc = "cardFronts",
                   !.cardBack = "loaded",
                   !.cardFronts = [id \in CardFronts |-> "pending"]]
    /\ UNCHANGED <<gameState, cards, board, inputEvents, now>>

\* image.onerror of the card back: preloadAllCardImages rethrows and
\* loadAssets' catch finishes the loading
CardBackFails ==
    /\ call.pc = "cardBack"
    /\ call' = FinishLoading([call EXCEPT !.cardBack = "failed"])
    /\ UNCHANGED <<gameState, cards, board, inputEvents, now>>

\* image.onload or image.onerror of a card front; the last one to settle
\* resolves Promise.all and loadAssets goes on
CardFrontSettles ==
    /\ call.pc = "cardFronts"
    /\ \E id \in CardFronts, loaded \in BOOLEAN :
           /\ call.cardFronts[id] = "pending"
           /\ LET settled == IF loaded
                             THEN [updateProgress(call) EXCEPT
                                      !.cardFronts[id] = "loaded"]
                             ELSE [call EXCEPT !.cardFronts[id] = "failed"]
              IN  call' = IF \A other \in CardFronts :
                                 settled.cardFronts[other] # "pending"
                          THEN FinishLoading(settled)
                          ELSE settled
    /\ UNCHANGED <<gameState, cards, board, inputEvents, now>>

\* A faulty timer callback that only warns.
SafetyTimeout_OnlyWarns ==
    /\ call.pc # "initialize"
    /\ call.safetyTimeout = "armed"
    /\ call' = [call EXCEPT !.safetyTimeout = "fired"]
    /\ UNCHANGED <<gameState, cards, board, inputEvents, now>>

\* The callback of the 4-second safety timer
SafetyTimeout ==
    /\ call.pc # "initialize"
    /\ call.safetyTimeout = "armed"
    /\ call' = [call EXCEPT !.safetyTimeout = "fired",
                            !.loadingState.isLoading = FALSE,
                            !.loadingState.allAssetsLoaded = TRUE,
                            !.loadingState.progress = <<1, 1>>]
    /\ UNCHANGED <<gameState, cards, board, inputEvents, now>>

LoadNext ==
    \/ LoadAssets
    \/ CardBackLoads
    \/ CardBackFails
    \/ CardFrontSettles
    \/ SafetyTimeout

\* An image may never load; a timer that is set and not cleared fires.
LoadSpec == LoadInit /\ [][LoadNext]_vars /\ WF_vars(SafetyTimeout)

\* C39: asset loading never blocks forever: once loadAssets has started, on
\* every path (all images load, loading fails, or loading hangs until the
\* safety timer fires) the loading state eventually has isLoading = false
\* and allAssetsLoaded = true, and once allAssetsLoaded is true it never
\* becomes false again, however the timer callback, the progress callbacks
\* and the completion interleave.
C39_LoadingEnds ==
    /\ (call.pc # "initialize")
       ~> (~call.loadingState.isLoading /\ call.loadingState.allAssetsLoaded)
    /\ [][call.loadingState.allAssetsLoaded
          => call'.loadingState.allAssetsLoaded]_vars

\* The timer fired while card fronts were still loading, and one of them
\* has loaded since: its progress callback ran after the forced completion.
C39_Witness ==
    /\ call.pc = "cardFronts"
    /\ call.safetyTimeout = "fired"
    /\ ~call.loadingState.isLoading
    /\ call.loadingState.allAssetsLoaded
    /\ call.loadingState.loadedAssets = 2
    /\ call.loadingState.progress = <<2, MaxCardFronts + 1>>

====
